---- MODULE Spec2Model ----
(***************************************************************************)
(* A model of pydaymet: the region resolver of the command line            *)
(* (cli.py), the request builders (_get_filename, _coord_urls,             *)
(* _gridded_urls) and the two retrieval entry points (get_bycoords,        *)
(* get_bygeom) of pydaymet.py, with the bounded concurrent transport they  *)
(* fetch through.                                                          *)
(*                                                                         *)
(* Coordinates are degrees scaled by 10^4 (integers).  A date is a day     *)
(* number; a calendar year has DaysPerYear days and the archive covers the *)
(* years 1..NumYears.                                                      *)
(***************************************************************************)
EXTENDS Integers, Sequences, FiniteSets, TLC

VARIABLES
    pc,          \* position of the call: see the actions
    entry,       \* "lib": get_bycoords/get_bygeom called directly; "cli": from the command line
    mode,        \* "coords" (get_bycoords) or "geom" (get_bygeom)
    geom,        \* the coords / geometry argument
    dates,       \* the dates argument: <<"pair", s, e>> or <<"years", list>>
    variables,   \* the variables argument (a sequence of variable codes)
    region,      \* the region argument ("" until the command line resolved it)
    time_scale,  \* the time_scale argument
    cli_pet,     \* the command line's --pet selector ("" for a library call)
    pet,         \* the pet argument of the library call (None or a method)
    dates_itr,   \* the decomposed windows
    batches,     \* the request plan: one sequence of descriptors per retrieve call
    cur,         \* the retrieve call in progress (index into batches)
    status,      \* per position of the current batch: "pending", "inflight", "done"
    buffer,      \* the transport's result list of the current batch
    ndone,       \* fetches of the current batch completed so far
    got,         \* the result lists of the retrieve calls that returned
    dispatched,  \* per batch, per position: how many times the descriptor was dispatched
    reordered,   \* some fetch completed while an earlier one of its batch was still in flight
    server,      \* the fetch the archive failed or flawed: <<kind, batch, position>>
    assembled,   \* the dataset as it stands when the pet selector is tested
    petCalls,    \* calls of potential_et
    clm,         \* the returned dataset (NoDataset until the call returns)
    error,       \* the exception the call ended with ("" for none)
    rows,        \* the ids of the rows of the command line's input file
    row,         \* the row the command line's loop is at
    run,         \* the run of the command line over the input file (0: no run)
    files,       \* the files of save_dir: name -> content, NoFile when there is none
    files0,      \* the files of save_dir before the first run
    retrieved,   \* the retrieval calls the command line made, in order
    outcomes     \* how each earlier run ended: "ran" or "failed"

vars == <<pc, entry, mode, geom, dates, variables, region, time_scale, cli_pet, pet,
          dates_itr, batches, cur, status, buffer, ndone, got, dispatched, reordered,
          server, assembled, petCalls, clm, error, rows, row, run, files, files0,
          retrieved, outcomes>>

----------------------------------------------------------------------------
(* Bounds of the model *)

NumYears == 3
DaysPerYear == 2

Years == 1..NumYears
Days == 1..(NumYears * DaysPerYear)
ModelVariables == {"prcp", "tmin", "tmax"}
TimeScales == {"daily", "monthly", "annual"}
RegionsSmallestFirst == <<"pr", "hi", "na">>
Regions == <<"na", "hi", "pr">>
RegionSet == {"na", "hi", "pr"}

None == "None"
NoDataset == [kind |-> "none"]
NaN == <<>>

Min(a, b) == IF a <= b THEN a ELSE b
Max(a, b) == IF a >= b THEN a ELSE b

RECURSIVE Flatten(_)
Flatten(ss) == IF ss = <<>> THEN <<>> ELSE Head(ss) \o Flatten(Tail(ss))

Range(s) == {s[i] : i \in DOMAIN s}

\* The sequences over S without repetition, of length 1..Cardinality(S).
RECURSIVE Perms(_)
Perms(S) ==
    IF S = {} THEN {<<>>}
    ELSE UNION {{<<x>> \o p : p \in Perms(S \ {x})} : x \in S}

Arrangements(S) == UNION {Perms(T) : T \in (SUBSET S) \ {{}}}

\* The elements of a set of integers, ascending.
RECURSIVE Ascending(_)
Ascending(S) ==
    IF S = {} THEN <<>>
    ELSE LET m == CHOOSE x \in S : \A y \in S : x <= y
         IN <<m>> \o Ascending(S \ {m})

----------------------------------------------------------------------------
(* The calendar *)

Date(y, d) == (y - 1) * DaysPerYear + d
YearOf(t) == ((t - 1) \div DaysPerYear) + 1
DayOfYear(t) == ((t - 1) % DaysPerYear) + 1
Jan1(y) == Date(y, 1)
Dec31(y) == Date(y, DaysPerYear)

\* s.strftime(DATE_REQ): the year and the day within it, as the request carries them.
strftime(t) == [year |-> YearOf(t), day |-> DayOfYear(t)]
\* The archive reading a time_start / time_end parameter back.
ParseTime(p) == Date(p.year, p.day)

----------------------------------------------------------------------------
(* DateRangeDecomposer: Daymet.check_dates, dates_tolist, years_tolist *)

check_dates(d) ==
    IF d[1] = "pair" THEN d[2] <= d[3] ELSE Len(d[2]) > 0

\* dates_tolist rounding every window to its whole calendar year.
dates_tolist_whole_years(s, e) ==
    [i \in 1..(YearOf(e) - YearOf(s) + 1) |->
        LET y == YearOf(s) + i - 1
        IN <<Jan1(y), Dec31(y)>>]

\* Daymet.dates_tolist: one window per calendar year of [s, e], the first from s,
\* the last to e, those between whole years.
dates_tolist(s, e) ==
    [i \in 1..(YearOf(e) - YearOf(s) + 1) |->
        LET y == YearOf(s) + i - 1
        IN <<Max(s, Jan1(y)), Min(e, Dec31(y))>>]

years_tolist(ys) == [i \in 1..Len(ys) |-> <<Jan1(ys[i]), Dec31(ys[i])>>]

\* The date pair taken as one window, whatever the years it spans.
DecomposeUndivided(d) == IF d[1] = "pair" THEN <<<<d[2], d[3]>>>> ELSE years_tolist(d[2])

Decompose(d) == IF d[1] = "pair" THEN dates_tolist(d[2], d[3]) ELSE years_tolist(d[2])

----------------------------------------------------------------------------
(* RegionResolver: cli.py, _get_region *)

Box(minx, miny, maxx, maxy) ==
    [kind |-> "Polygon", minx |-> minx, miny |-> miny, maxx |-> maxx, maxy |-> maxy]
Point(x, y) == [kind |-> "Point", x |-> x, y |-> y]

region_bbox(r) ==
    CASE r = "na" -> Box(-1368989, 60761, -61376, 690770)
      [] r = "hi" -> Box(-1603055, 179539, -1547715, 235186)
      [] r = "pr" -> Box(-679927, 168443, -641195, 199381)

\* shapely: bbox.contains(g).  A point is contained when it lies in the interior of
\* the box; a polygon when none of it lies outside the box.
contains(bbox, g) ==
    IF g.kind = "Point"
    THEN bbox.minx < g.x /\ g.x < bbox.maxx /\ bbox.miny < g.y /\ g.y < bbox.maxy
    ELSE bbox.minx <= g.minx /\ g.maxx <= bbox.maxx
         /\ bbox.miny <= g.miny /\ g.maxy <= bbox.maxy

\* shapely: g.intersects(bbox): they share a point.
intersects(g, bbox) ==
    IF g.kind = "Point"
    THEN bbox.minx <= g.x /\ g.x <= bbox.maxx /\ bbox.miny <= g.y /\ g.y <= bbox.maxy
    ELSE g.minx <= bbox.maxx /\ bbox.minx <= g.maxx
         /\ g.miny <= bbox.maxy /\ bbox.miny <= g.maxy

\* The regions in the order the dictionary is iterated, from position i on.
RECURSIVE FirstContaining(_, _)
FirstContaining(g, i) ==
    IF i > Len(Regions) THEN "InvalidInputRange"
    ELSE IF contains(region_bbox(Regions[i]), g) THEN Regions[i]
    ELSE FirstContaining(g, i + 1)

RECURSIVE FirstIntersecting(_, _)
FirstIntersecting(g, i) ==
    IF i > Len(Regions) THEN "InvalidInputRange"
    ELSE IF intersects(g, region_bbox(Regions[i])) THEN Regions[i]
    ELSE FirstIntersecting(g, i + 1)

\* _get_region testing intersection where the code tests containment.
get_region_intersecting(g) == FirstIntersecting(g, 1)

\* _get_region(gid, geom): the region, or "InvalidInputRange" for the exception.
_get_region(g) == FirstContaining(g, 1)

----------------------------------------------------------------------------
(* RequestBuilder: pydaymet.py, _get_filename, _coord_urls, _gridded_urls *)

\* Daymet.time_codes: the endpoint code of a time scale.
time_codes(scale) ==
    CASE scale = "daily" -> 1840
      [] scale = "monthly" -> 1855
      [] scale = "annual" -> 1852

\* _get_filename with the average form for every variable.
get_filename_avg(r, code, v) ==
    CASE code = 1840 -> <<"daily", r, v>>
      [] code = 1855 -> <<v, "monavg", r>>
      [] code = 1852 -> <<v, "annavg", r>>

\* _get_filename(region)[code](v): the tokens of the file name, joined by "_".
_get_filename(r, code, v) ==
    CASE code = 1840 -> <<"daily", r, v>>
      [] code = 1855 -> IF v = "prcp" THEN <<v, "monttl", r>> ELSE <<v, "monavg", r>>
      [] code = 1852 -> IF v = "prcp" THEN <<v, "annttl", r>> ELSE <<v, "annavg", r>>

\* f"{base_url}/daymet_v4_{time_scale[code](v)}_{s.year}.nc"
Url(code, r, v, s) ==
    [code |-> code, file |-> <<"daymet_v4">> \o _get_filename(r, code, v), year |-> YearOf(s)]

CoordDescriptor(code, coord, r, v, w) ==
    [url |-> Url(code, r, v, w[1]),
     params |-> [var |-> v, longitude |-> coord[1], latitude |-> coord[2],
                 time_start |-> strftime(w[1]), time_end |-> strftime(w[2]),
                 accept |-> "csv"]]

\* _coord_urls looping over the windows first and the variables second.
coord_urls_by_window(code, coord, r, vs, ds) ==
    [j \in 1..Len(ds) |-> [i \in 1..Len(vs) |-> CoordDescriptor(code, coord, r, vs[i], ds[j])]]

\* _coord_urls: one list per variable, holding one descriptor per window.
_coord_urls(code, coord, r, vs, ds) ==
    [i \in 1..Len(vs) |-> [j \in 1..Len(ds) |-> CoordDescriptor(code, coord, r, vs[i], ds[j])]]

GridDescriptor(code, bounds, r, v, w) ==
    [url |-> Url(code, r, v, w[1]),
     params |-> [var |-> v, north |-> bounds[4], west |-> bounds[1], east |-> bounds[3],
                 south |-> bounds[2], disableProjSubset |-> "on", horizStride |-> "1",
                 time_start |-> strftime(w[1]), time_end |-> strftime(w[2]),
                 timeStride |-> "1", addLatLon |-> "true", accept |-> "netcdf"]]

\* _gridded_urls: itertools.product(variables, dates), the last factor running fastest.
_gridded_urls(code, bounds, r, vs, ds) ==
    [k \in 1..(Len(vs) * Len(ds)) |->
        GridDescriptor(code, bounds, r, vs[((k - 1) \div Len(ds)) + 1],
                       ds[((k - 1) % Len(ds)) + 1])]

\* _geometry.bounds: (west, south, east, north).
Bounds(g) ==
    IF g.kind = "Point" THEN <<g.x, g.y, g.x, g.y>> ELSE <<g.minx, g.miny, g.maxx, g.maxy>>

----------------------------------------------------------------------------
(* The archive: what one fetch returns *)

Timestamp(day, hour) == day * 24 + hour
DayOf(ts) == ts \div 24

\* The unit the archive labels a variable's column with.
ServerUnit(v) == IF v = "prcp" THEN "mm" ELSE "degrees C"

\* The days a request is answered with: those of [time_start, time_end] that the
\* yearly file holds; an archive with an inconsistent calendar leaves the last out.
ServedDays(d, fault) ==
    LET lo == Max(ParseTime(d.params.time_start), Jan1(d.url.year))
        hi == Min(ParseTime(d.params.time_end), Dec31(d.url.year))
        last == IF fault = "short" THEN hi - 1 ELSE hi
    IN [k \in 1..(last - lo + 1) |-> lo + k - 1]

NoPayload == [accept |-> "none"]

\* The payload of one fetch: the csv table of point mode, the netcdf file of grid mode.
Response(d, fault) ==
    LET days == ServedDays(d, fault)
        v == d.params.var
    IN IF d.params.accept = "csv"
       THEN [accept |-> "csv",
             header |-> [name |-> v, unit |-> ServerUnit(v), form |-> "raw"],
             time |-> [k \in DOMAIN days |-> Timestamp(days[k], 12)],
             values |-> [k \in DOMAIN days |-> <<v, days[k]>>]]
       ELSE [accept |-> "netcdf",
             var |-> v,
             grid |-> IF fault = "mismatch" THEN "other" ELSE "daymet",
             time |-> [k \in DOMAIN days |-> Timestamp(days[k], 12)],
             values |-> [k \in DOMAIN days |-> <<v, days[k]>>]]

\* What the archive did with the descriptor at position i of batch b.
FaultAt(srv, b, i) == IF srv[2] = b /\ srv[3] = i THEN srv[1] ELSE "ok"

\* What the archive may do with a fetch: answer it, or, once in a call, fail it or
\* answer it with a flaw.
Outcomes(srv, flaws) == IF srv[1] = "ok" THEN {"ok"} \cup flaws ELSE {"ok"}

----------------------------------------------------------------------------
(* The transport: ar.retrieve(urls, ..., max_workers=8) *)

max_workers == 8

InFlight(st) == Cardinality({i \in DOMAIN st : st[i] = "inflight"})

\* A pool that starts every fetch at once.
CanDispatchUnbounded(st) == TRUE

\* The pool starts another fetch only while fewer than max_workers are in flight.
CanDispatch(st) == InFlight(st) < max_workers

\* A transport that hands the responses back in the order they arrived.
StoreByArrival(i, n) == n + 1

\* The place of a response in the list retrieve returns: that of its request.
StorePosition(i, n) == i

----------------------------------------------------------------------------
(* Tables and datasets *)

EmptyAttrs == [k \in {} |-> ""]
SetAttr(a, key, val) == [k \in (DOMAIN a) \cup {key} |-> IF k = key THEN val ELSE a[k]]

\* A series: a name, an index and the values at it.
Series(name, index, values) == [name |-> name, index |-> index, values |-> values]

\* pd.read_csv(..., parse_dates=[0], usecols=[0, 3], index_col=[0])
read_csv(r) == Series(r.header, r.time, r.values)

\* pd.concat(frames): the frames one below the other, in the order given.
RECURSIVE ConcatRows(_)
ConcatRows(fs) ==
    IF Len(fs) = 1 THEN fs[1]
    ELSE LET rest == ConcatRows(Tail(fs))
         IN Series(fs[1].name, fs[1].index \o rest.index, fs[1].values \o rest.values)

ValueAt(f, t) ==
    IF \E k \in DOMAIN f.index : f.index[k] = t
    THEN f.values[CHOOSE k \in DOMAIN f.index : f.index[k] = t]
    ELSE NaN

\* The index of an outer join: the common index when all agree, else the union.
JoinIndex(fs) ==
    IF \A i \in DOMAIN fs : fs[i].index = fs[1].index
    THEN fs[1].index
    ELSE Ascending(UNION {Range(fs[i].index) : i \in DOMAIN fs})

\* pd.concat(frames, axis=1): the frames side by side on the outer join of their
\* indexes (the default join), the cells a frame lacks filled with NaN.
ConcatColumns(fs) ==
    LET idx == JoinIndex(fs)
    IN [kind |-> "table",
        columns |-> [i \in DOMAIN fs |-> fs[i].name],
        index |-> idx,
        data |-> [i \in DOMAIN fs |->
                    IF fs[i].index = idx THEN fs[i].values
                    ELSE [k \in DOMAIN idx |-> ValueAt(fs[i], idx[k])]]]

\* c.replace('[unit="', " (").replace('"]', ")")
RenameColumn(c) == IF c.form = "raw" THEN [c EXCEPT !.form = "name (unit)"] ELSE c

PrcpMm == [name |-> "prcp", unit |-> "mm", form |-> "name (unit)"]
PrcpMmDay == [name |-> "prcp", unit |-> "mm/day", form |-> "name (unit)"]

\* clm.rename(columns={"prcp (mm)": "prcp (mm/day)"})
RenamePrcp(c) == IF c = PrcpMm THEN PrcpMmDay ELSE c

\* pd.to_datetime(clm.index.strftime("%Y-%m-%d")): the time of day is dropped.
NormalizeIndex(idx) == [k \in DOMAIN idx |-> Timestamp(DayOf(idx[k]), 0)]

Ok(v) == [ok |-> TRUE, value |-> v]
Err(e) == [ok |-> FALSE, error |-> e]

----------------------------------------------------------------------------
(* PETEngine: pet.py, potential_et *)

\* The variables a method needs.
PetRequired(method) ==
    IF method = "hargreaves_samani" THEN {"tmin", "tmax"}
    ELSE {"tmin", "tmax", "srad", "vp", "dayl"}

PetColumn == [name |-> "pet", unit |-> "mm/day", form |-> "name (unit)"]

\* potential_et(clm, coords, method, params) on a table: a pet column is added.
potential_et_table(t, method) ==
    IF method = "none" THEN Ok(t)
    ELSE IF ~(PetRequired(method) \subseteq {t.columns[i].name : i \in DOMAIN t.columns})
    THEN Err("MissingItems")
    ELSE Ok([t EXCEPT !.columns = Append(@, PetColumn),
                      !.data = Append(@, [k \in DOMAIN t.index |-> <<"pet", DayOf(t.index[k])>>])])

\* potential_et(clm, method, params) on a dataset: a pet data variable is added.
potential_et_dataset(ds, method) ==
    IF method = "none" THEN Ok(ds)
    ELSE IF ~(PetRequired(method) \subseteq Range(ds.data_vars))
    THEN Err("MissingItems")
    ELSE Ok([ds EXCEPT !.data_vars = Append(@, "pet"),
                       !.data = Append(@, [k \in DOMAIN ds.time |-> <<"pet", DayOf(ds.time[k])>>]),
                       !.var_attrs = Append(@, SetAttr(EmptyAttrs, "units", "mm/day"))])

----------------------------------------------------------------------------
(* get_bycoords: from the responses to the returned table *)

\* Lines 125-134: each variable's responses one below the other, the variables side
\* by side.
ConcatResponses(lists) ==
    ConcatColumns([b \in DOMAIN lists |->
                      ConcatRows([i \in DOMAIN lists[b] |-> read_csv(lists[b][i])])])

\* Lines 135-140: the labels rewritten, the index reduced to dates.
NormalizeTable(t) ==
    [t EXCEPT !.columns = [i \in DOMAIN t.columns |-> RenamePrcp(RenameColumn(t.columns[i]))],
              !.index = NormalizeIndex(t.index)]

CoordsAssembled(lists) == NormalizeTable(ConcatResponses(lists))

\* "if pet is not None"
PetSelected(p) == p # None

\* Lines 142-144.
CoordsReturn(t, p) == IF PetSelected(p) THEN potential_et_table(t, p) ELSE Ok(t)

----------------------------------------------------------------------------
(* get_bygeom: from the responses to the returned dataset *)

LCC == "lambert_conformal_conic"

RECURSIVE Distinct(_)
Distinct(s) ==
    IF s = <<>> THEN <<>>
    ELSE LET rest == Distinct(SelectSeq(Tail(s), LAMBDA x : x # Head(s)))
         IN <<Head(s)>> \o rest

OfVar(rs, v) == SelectSeq(rs, LAMBDA r : r.var = v)

\* xr.open_mfdataset(files, engine="scipy", coords="minimal"): the files merged into
\* one dataset, the data variables in the order the files bring them, each along
\* time in the order of its files; files of different grids do not merge.
open_mfdataset(rs) ==
    IF \E i \in DOMAIN rs : rs[i].grid # rs[1].grid
    THEN Err("ValueError")
    ELSE LET names == Distinct([i \in DOMAIN rs |-> rs[i].var])
             fs == [n \in DOMAIN names |->
                      LET mine == OfVar(rs, names[n])
                      IN ConcatRows([i \in DOMAIN mine |->
                                        Series(names[n], mine[i].time, mine[i].values)])]
             idx == JoinIndex(fs)
         IN Ok([kind |-> "dataset",
                data_vars |-> Append(names, LCC),
                time |-> idx,
                data |-> Append([n \in DOMAIN fs |->
                                    IF fs[n].index = idx THEN fs[n].values
                                    ELSE [k \in DOMAIN idx |-> ValueAt(fs[n], idx[k])]], <<>>),
                var_attrs |-> [n \in 1..(Len(names) + 1) |-> EmptyAttrs],
                attrs |-> EmptyAttrs,
                grid |-> rs[1].grid,
                mask |-> "none"])

\* Lines 241-255: a ValueError of the merge is raised again as a ServiceError.
MergeKeepingValueError(rs) == open_mfdataset(rs)

MergeResponses(rs) ==
    LET m == open_mfdataset(rs)
    IN IF ~m.ok /\ m.error = "ValueError" THEN Err("ServiceError") ELSE m

\* Daymet.units: the unit of a variable.
units(v) == IF v = "prcp" THEN "mm/day" ELSE "degrees C"

\* Lines 257-259.
SetUnits(ds) ==
    [ds EXCEPT !.var_attrs =
        [n \in DOMAIN ds.data_vars |->
            IF ds.data_vars[n] \in ModelVariables
            THEN SetAttr(ds.var_attrs[n], "units", units(ds.data_vars[n]))
            ELSE ds.var_attrs[n]]]

\* Line 261: clm.drop_vars(["lambert_conformal_conic"])
drop_vars(ds, name) ==
    LET keep == {n \in DOMAIN ds.data_vars : ds.data_vars[n] # name}
        at == Ascending(keep)
    IN [ds EXCEPT !.data_vars = [j \in DOMAIN at |-> ds.data_vars[at[j]]],
                  !.data = [j \in DOMAIN at |-> ds.data[at[j]]],
                  !.var_attrs = [j \in DOMAIN at |-> ds.var_attrs[at[j]]]]

daymet_crs == "+proj=lcc +lat_1=25 +lat_2=60 +lat_0=42.5 +lon_0=-100 +x_0=0 +y_0=0 +ellps=WGS84 +units=km +no_defs"
nodatavals == <<0>>

\* geoutils.get_transform(clm, ("y", "x")): the affine transform of the grid.
get_transform(ds) == [a |-> 1, e |-> -1, grid |-> ds.grid]

\* Lines 277-281.
SetDatasetAttrs(ds) ==
    LET transform == get_transform(ds)
    IN [ds EXCEPT !.attrs =
          SetAttr(SetAttr(SetAttr(SetAttr(@, "crs", daymet_crs), "nodatavals", nodatavals),
                          "transform", transform), "res", <<transform.a, transform.e>>)]

\* Lines 257-281: the merged dataset as it stands when the pet selector is tested.
NormalizeDataset(ds) == SetDatasetAttrs(drop_vars(SetUnits(ds), LCC))

\* The loop of lines 286-289 setting the projection only.
SetVarAttrsCrsOnly(ds) ==
    [ds EXCEPT !.var_attrs =
        [n \in DOMAIN ds.data_vars |-> SetAttr(ds.var_attrs[n], "crs", daymet_crs)]]

\* Lines 286-289: the projection and the nodata value on every data variable.
SetVarAttrs(ds) ==
    [ds EXCEPT !.var_attrs =
        [n \in DOMAIN ds.data_vars |->
            SetAttr(SetAttr(ds.var_attrs[n], "crs", daymet_crs), "nodatavals", nodatavals)]]

\* geoutils.xarray_geomask(clm, _geometry, DEF_CRS): the cells outside the geometry
\* are masked; the metadata stays.
xarray_geomask(ds, g) == [ds EXCEPT !.mask = g]

\* Lines 286-291.
GeomFinish(ds, g) == xarray_geomask(SetVarAttrs(ds), g)

\* Lines 283-291.
GeomReturn(ds, p, g) ==
    IF PetSelected(p)
    THEN LET r == potential_et_dataset(ds, p)
         IN IF r.ok THEN Ok(GeomFinish(r.value, g)) ELSE r
    ELSE Ok(GeomFinish(ds, g))

----------------------------------------------------------------------------
(* The inputs *)

Malformed == [kind |-> "Malformed"]

DatePairs == {<<"pair", s, e>> : s \in Days, e \in Days}
YearLists == {<<"years", Ascending(Y)>> : Y \in (SUBSET Years) \ {{}}}
DateInputs == DatePairs \cup YearLists

\* The calls of the retrieval specification: the date pairs that start with the
\* archive's first day or are out of order, the year lists, one or two variables.
CallDates == {d \in DatePairs : d[2] = Jan1(1) \/ d[2] > d[3]} \cup YearLists
CallVariables == {vs \in Arrangements(ModelVariables) : Len(vs) <= 2}
CallScales == {"daily"}

\* The calls with one request more in a retrieve call than the pool has workers: in
\* point mode one variable over a year list of that length (a year may be named
\* more than once), in grid mode three variables over a third as many years.
LongYearList(n) == [i \in 1..n |-> ((i - 1) \div 3) + 1]

CoordInputs == {Point(-1000000, 400000), Point(0, 0), Malformed}
GeometryInputs ==
    {Box(-1000000, 400000, -900000, 500000), Box(-100000, 400000, 0, 500000),
     Box(0, 0, 100000, 100000)}

IdleFetch ==
    /\ dates_itr = <<>>
    /\ batches = <<>>
    /\ cur = 0
    /\ status = <<>>
    /\ buffer = <<>>
    /\ ndone = 0
    /\ got = <<>>
    /\ dispatched = <<>>
    /\ reordered = FALSE
    /\ server = <<"ok", 0, 0>>
    /\ assembled = NoDataset
    /\ petCalls = 0
    /\ clm = NoDataset
    /\ error = ""

fetchVars == <<dates_itr, batches, cur, status, buffer, ndone, got, dispatched, reordered,
               server, assembled, petCalls, clm, error>>
\* The state of a command-line run over an input file, and a call outside of one.
runVars == <<rows, row, run, files, files0, retrieved, outcomes>>
NoRun ==
    /\ rows = <<>>
    /\ row = 0
    /\ run = 0
    /\ files = <<>>
    /\ files0 = <<>>
    /\ retrieved = <<>>
    /\ outcomes = <<>>

argVars == <<entry, mode, geom, dates, variables, time_scale, cli_pet, runVars>>

----------------------------------------------------------------------------
(* The command line: one row of coords / geometry *)

\* The selector handed on as it is.
CliPetUnmapped(sel) == sel

\* _pet = None if pet == "none" else pet
CliPet(sel) == IF sel = "none" THEN None ELSE sel

\* cli.py, coords and geometry: the row's region is resolved, the selector mapped,
\* and get_bycoords / get_bygeom called.
CliInvoke ==
    /\ pc = "cli"
    /\ LET r == _get_region(geom)
       IN IF r = "InvalidInputRange"
          THEN /\ pc' = "failed"
               /\ error' = r
               /\ UNCHANGED <<region, pet>>
          ELSE /\ pc' = "call"
               /\ region' = r
               /\ pet' = CliPet(cli_pet)
               /\ error' = error
    /\ UNCHANGED <<argVars, dates_itr, batches, cur, status, buffer, ndone, got, dispatched,
                   reordered, server, assembled, petCalls, clm>>

----------------------------------------------------------------------------
(* get_bycoords / get_bygeom *)

\* The checks without those of the point and of the geometry against the region.
ValidateWithoutRegion ==
    IF ~check_dates(dates) THEN "InvalidInputRange"
    ELSE IF mode = "coords" /\ geom.kind # "Point" THEN "InvalidInputType"
    ELSE ""

\* The check that stops a call before any request is built ("" when none does).
Validate ==
    IF ~check_dates(dates) THEN "InvalidInputRange"
    ELSE IF mode = "coords" /\ geom.kind # "Point" THEN "InvalidInputType"
    ELSE IF mode = "coords" /\ ~contains(region_bbox(region), geom) THEN "InvalidInputRange"
    ELSE IF mode = "geom" /\ ~intersects(geom, region_bbox(region)) THEN "InvalidInputRange"
    ELSE ""

\* The plan: one batch per variable in point mode, one batch in grid mode.
PlanOf(ds) ==
    LET code == time_codes(time_scale)
    IN IF mode = "coords"
       THEN _coord_urls(code, <<geom.x, geom.y>>, region, variables, ds)
       ELSE <<_gridded_urls(code, Bounds(geom), region, variables, ds)>>

\* The ways a fetch of the batch in progress may go wrong: the transport fails; in
\* point mode the answer lacks a day; in grid mode, among several files, one is on
\* another grid than the rest.
Flaws ==
    IF mode = "coords" THEN {"fail", "short"}
    ELSE IF Len(batches[cur]) > 1 THEN {"fail", "mismatch"}
    ELSE {"fail"}

\* The state in which the retrieve call of batch b begins.
StartBatch(plan, b) ==
    /\ cur' = b
    /\ status' = [i \in DOMAIN plan[b] |-> "pending"]
    /\ buffer' = [i \in DOMAIN plan[b] |-> NoPayload]
    /\ ndone' = 0

\* Lines 103-122 and 218-239: validation, the windows, the request plan.
Prepare ==
    /\ pc = "call"
    /\ IF Validate # ""
       THEN /\ pc' = "failed"
            /\ error' = Validate
            /\ dates_itr' = IF check_dates(dates) THEN Decompose(dates) ELSE dates_itr
            /\ UNCHANGED <<batches, cur, status, buffer, ndone, dispatched, server>>
       ELSE /\ pc' = "fetch"
            /\ dates_itr' = Decompose(dates)
            /\ batches' = PlanOf(dates_itr')
            /\ dispatched' = [b \in DOMAIN batches' |-> [i \in DOMAIN batches'[b] |-> 0]]
            /\ server' = server
            /\ StartBatch(batches', 1)
            /\ error' = error
    /\ UNCHANGED <<argVars, region, pet, got, reordered, assembled, petCalls, clm>>

\* The pool starts the next fetch of the batch.
Dispatch(i) ==
    /\ pc = "fetch"
    /\ status[i] = "pending"
    /\ \A j \in 1..(i - 1) : status[j] # "pending"
    /\ CanDispatch(status)
    /\ status' = [status EXCEPT ![i] = "inflight"]
    /\ dispatched' = [dispatched EXCEPT ![cur][i] = @ + 1]
    /\ UNCHANGED <<pc, argVars, region, pet, dates_itr, batches, cur, buffer, ndone, got,
                   reordered, server, assembled, petCalls, clm, error>>

\* A worker is free and a request is waiting for one.
CanStart == CanDispatch(status) /\ \E j \in DOMAIN status : status[j] = "pending"

\* A fetch in flight ends: its response takes its place in the result list, or the
\* transport raises and the call ends with it.  The requests of a retrieve call are
\* handed to the pool before any response is awaited, so no fetch ends while a
\* request waits for a worker that is free.
Complete(i) ==
    /\ pc = "fetch"
    /\ status[i] = "inflight"
    /\ ~CanStart
    /\ \E f \in Outcomes(server, Flaws) :
         /\ server' = IF f = "ok" THEN server ELSE <<f, cur, i>>
         /\ IF f = "fail"
            THEN /\ pc' = "failed"
                 /\ error' = "TransportError"
                 /\ UNCHANGED <<status, buffer, ndone, reordered>>
            ELSE /\ status' = [status EXCEPT ![i] = "done"]
                 /\ buffer' = [buffer EXCEPT ![StorePosition(i, ndone)] =
                                   Response(batches[cur][i], f)]
                 /\ ndone' = ndone + 1
                 /\ reordered' = (reordered \/ \E j \in 1..(i - 1) : status[j] # "done")
                 /\ UNCHANGED <<pc, error>>
    /\ UNCHANGED <<argVars, region, pet, dates_itr, batches, cur, got, dispatched,
                   assembled, petCalls, clm>>

AllDone == \A i \in DOMAIN status : status[i] = "done"

\* Point mode: the retrieve call of one variable returns and the next one begins.
RetrieveReturns ==
    /\ pc = "fetch"
    /\ AllDone
    /\ cur < Len(batches)
    /\ got' = Append(got, buffer)
    /\ StartBatch(batches, cur + 1)
    /\ UNCHANGED <<pc, argVars, region, pet, dates_itr, batches, dispatched, reordered,
                   server, assembled, petCalls, clm, error>>

\* The dataset as it stands when the pet selector is tested.
Assembled(lists) ==
    IF mode = "coords" THEN Ok(CoordsAssembled(lists))
    ELSE LET m == MergeResponses(lists[1])
         IN IF m.ok THEN Ok(NormalizeDataset(m.value)) ELSE m

\* The last retrieve call returns: lines 125-144 and 241-291, to the return.
Finish ==
    /\ pc = "fetch"
    /\ AllDone
    /\ cur = Len(batches)
    /\ got' = Append(got, buffer)
    /\ LET a == Assembled(got')
       IN IF ~a.ok
          THEN /\ pc' = "failed"
               /\ error' = a.error
               /\ UNCHANGED <<assembled, petCalls, clm>>
          ELSE LET r == IF mode = "coords" THEN CoordsReturn(a.value, pet)
                        ELSE GeomReturn(a.value, pet, geom)
               IN /\ assembled' = a.value
                  /\ petCalls' = petCalls + (IF PetSelected(pet) THEN 1 ELSE 0)
                  /\ IF r.ok
                     THEN pc' = "done" /\ clm' = r.value /\ error' = error
                     ELSE pc' = "failed" /\ error' = r.error /\ clm' = clm
    /\ UNCHANGED <<argVars, region, pet, dates_itr, batches, cur, status, buffer, ndone,
                   dispatched, reordered, server>>

InitCall ==
    /\ entry \in {"lib", "cli"}
    /\ mode \in {"coords", "geom"}
    /\ geom \in (IF mode = "coords" THEN CoordInputs ELSE GeometryInputs)
    /\ dates \in CallDates
    /\ variables \in CallVariables
    /\ time_scale \in CallScales
    /\ IF entry = "lib"
       THEN /\ pc = "call"
            /\ region \in {"na", "hi"}
            /\ pet \in {None, "hargreaves_samani"}
            /\ cli_pet = ""
       ELSE /\ pc = "cli"
            /\ geom # Malformed
            /\ dates[1] = "pair"
            /\ region = ""
            /\ pet = ""
            /\ cli_pet \in {"none", "hargreaves_samani"}
    /\ IdleFetch
    /\ NoRun

InitLargeCall ==
    /\ entry = "lib"
    /\ pc = "call"
    /\ \/ /\ mode = "coords"
          /\ geom = Point(-1000000, 400000)
          /\ variables = <<"prcp">>
          /\ dates = <<"years", LongYearList(max_workers + 1)>>
       \/ /\ mode = "geom"
          /\ geom = Box(-1000000, 400000, -900000, 500000)
          /\ variables = <<"prcp", "tmin", "tmax">>
          /\ dates = <<"years", Distinct(LongYearList(max_workers + 1))>>
    /\ time_scale = "daily"
    /\ region = "na"
    /\ pet = None
    /\ cli_pet = ""
    /\ IdleFetch
    /\ NoRun

Init == InitCall \/ InitLargeCall

Next ==
    \/ CliInvoke
    \/ Prepare
    \/ \E i \in DOMAIN status : Dispatch(i)
    \/ \E i \in DOMAIN status : Complete(i)
    \/ RetrieveReturns
    \/ Finish

Spec == Init /\ [][Next]_vars

----------------------------------------------------------------------------
(* The region resolver over points and boxes around the three region boxes *)

Lons == {-1700000, -1603055, -1600000, -1570000, -1547715, -1400000, -1368989, -1000000,
         -679927, -660000, -641195, -61376, 0}
Lats == {0, 60761, 100000, 168443, 170000, 179539, 200000, 220000, 235186, 400000, 690770,
         800000}

RegionPoints == {Point(x, y) : x \in Lons, y \in Lats}
RegionBoxes ==
    {Box(c[1], c[2], c[3], c[4]) :
        c \in {q \in Lons \X Lats \X Lons \X Lats : q[1] < q[3] /\ q[2] < q[4]}}

InitRegion ==
    /\ entry = "cli"
    /\ pc = "cli"
    /\ geom \in RegionPoints \cup RegionBoxes
    /\ mode = (IF geom.kind = "Point" THEN "coords" ELSE "geom")
    /\ dates = <<"pair", Jan1(1), Dec31(1)>>
    /\ variables = <<"prcp">>
    /\ time_scale = "daily"
    /\ region = ""
    /\ pet = ""
    /\ cli_pet = "none"
    /\ IdleFetch
    /\ NoRun

SpecRegion == InitRegion /\ [][CliInvoke]_vars

----------------------------------------------------------------------------
(* The date decomposition and the request builders over every input *)

\* Daymet.check_dates and dates_tolist / years_tolist (lines 104-109, 219-224).
DecomposeDates ==
    /\ pc = "dates"
    /\ IF check_dates(dates)
       THEN pc' = "windows" /\ dates_itr' = Decompose(dates) /\ error' = error
       ELSE pc' = "failed" /\ error' = "InvalidInputRange" /\ dates_itr' = dates_itr
    /\ UNCHANGED <<argVars, region, pet, batches, cur, status, buffer, ndone, got, dispatched,
                   reordered, server, assembled, petCalls, clm>>

\* _coord_urls / _gridded_urls (lines 119-122, 231-239).
BuildRequests ==
    /\ pc = "windows"
    /\ pc' = "planned"
    /\ batches' = PlanOf(dates_itr)
    /\ UNCHANGED <<argVars, region, pet, dates_itr, cur, status, buffer, ndone, got, dispatched,
                   reordered, server, assembled, petCalls, clm, error>>

InitPlan ==
    /\ entry = "lib"
    /\ pc = "dates"
    /\ mode \in {"coords", "geom"}
    /\ geom = (IF mode = "coords" THEN Point(-1000000, 400000)
               ELSE Box(-1000000, 400000, -900000, 500000))
    /\ dates \in DateInputs
    /\ variables \in Arrangements(ModelVariables)
    /\ time_scale \in TimeScales
    /\ region \in RegionSet
    /\ pet = None
    /\ cli_pet = ""
    /\ IdleFetch
    /\ NoRun

NextPlan == DecomposeDates \/ BuildRequests

SpecPlan == InitPlan /\ [][NextPlan]_vars

----------------------------------------------------------------------------
(* The command line's loop over the rows of its input file (coords, geometry) *)

MaxRows == 3
MaxRuns == 2

Ids == {"a", "b"}
Extensions == {"csv", "nc"}
NoFile == [kind |-> "none"]
OldFile == [body |-> "old", mtime |-> <<0, 0>>]

\* Path(save_dir, f"{i}.csv") in coords, Path(save_dir, f"{i}.nc") in geometry.
fname(i) == <<i, IF mode = "coords" THEN "csv" ELSE "nc">>

\* The test of the loop left out.
ExistsNever(fs, f) == FALSE

\* fname.exists()
Exists(fs, f) == fs[f] # NoFile

\* clm.to_csv(fname, index=False) writes the columns without the index;
\* clm.to_netcdf(fname) writes the dataset.
Written(ds) ==
    IF mode = "coords" THEN [columns |-> ds.columns, data |-> ds.data] ELSE ds

\* The locals of a call that returned are gone when the next one begins.
ResetCall ==
    /\ dates_itr' = <<>>
    /\ batches' = <<>>
    /\ cur' = 0
    /\ status' = <<>>
    /\ buffer' = <<>>
    /\ ndone' = 0
    /\ got' = <<>>
    /\ dispatched' = <<>>
    /\ reordered' = FALSE
    /\ server' = <<"ok", 0, 0>>
    /\ assembled' = NoDataset
    /\ petCalls' = 0
    /\ clm' = NoDataset
    /\ error' = ""

callVars == <<entry, mode, geom, dates, variables, time_scale, cli_pet, region, pet>>

\* Lines 147-151 and 208-212: the row's file name is tested; a row whose file
\* exists is passed over, for any other get_bycoords / get_bygeom is called.
CliRow ==
    /\ pc = "rows"
    /\ row <= Len(rows)
    /\ IF Exists(files, fname(rows[row]))
       THEN /\ row' = row + 1
            /\ UNCHANGED <<pc, retrieved>>
       ELSE /\ pc' = "call"
            /\ retrieved' = Append(retrieved,
                                   [run |-> run, row |-> row, file |-> fname(rows[row]),
                                    existed |-> files[fname(rows[row])] # NoFile])
            /\ row' = row
    /\ UNCHANGED <<callVars, fetchVars, rows, run, files, files0, outcomes>>

\* Lines 154 and 215: the dataset the call returned is written to the row's file.
CliSave ==
    /\ run > 0
    /\ pc = "done"
    /\ files' = [files EXCEPT ![fname(rows[row])] =
                    [body |-> Written(clm), mtime |-> <<run, row>>]]
    /\ row' = row + 1
    /\ pc' = "rows"
    /\ ResetCall
    /\ UNCHANGED <<callVars, rows, run, files0, retrieved, outcomes>>

\* The loop has passed the last row.
CliLoopEnds ==
    /\ pc = "rows"
    /\ row > Len(rows)
    /\ pc' = "ran"
    /\ UNCHANGED <<callVars, fetchVars, runVars>>

\* The command is run again over the same input file, after a run that passed
\* every row or after one that an exception ended.
CliRerun ==
    /\ run > 0
    /\ run < MaxRuns
    /\ pc \in {"ran", "failed"}
    /\ outcomes' = Append(outcomes, pc)
    /\ run' = run + 1
    /\ row' = 1
    /\ pc' = "rows"
    /\ ResetCall
    /\ UNCHANGED <<callVars, rows, files, files0, retrieved>>

RowLists == UNION {[1..n -> Ids] : n \in 1..MaxRows}

\* The state at the loop: the input file read, the regions resolved (lines 133,
\* 194), the selector mapped (lines 127, 201), save_dir made (lines 141, 202).
InitCli ==
    /\ entry = "cli"
    /\ pc = "rows"
    /\ mode \in {"coords", "geom"}
    /\ geom = (IF mode = "coords" THEN Point(-1000000, 400000)
               ELSE Box(-1000000, 400000, -900000, 500000))
    /\ dates = <<"pair", Jan1(1), Dec31(1)>>
    /\ variables = (IF mode = "coords" THEN <<"prcp", "tmin">> ELSE <<"prcp">>)
    /\ time_scale = "daily"
    /\ cli_pet = "none"
    /\ region = _get_region(geom)
    /\ pet = CliPet(cli_pet)
    /\ IdleFetch
    /\ rows \in RowLists
    /\ row = 1
    /\ run = 1
    /\ files0 \in [Ids \X Extensions -> {NoFile, OldFile}]
    /\ files = files0
    /\ retrieved = <<>>
    /\ outcomes = <<>>

NextCli ==
    \/ CliRow
    \/ Prepare
    \/ \E i \in DOMAIN status : Dispatch(i)
    \/ \E i \in DOMAIN status : Complete(i)
    \/ RetrieveReturns
    \/ Finish
    \/ CliSave
    \/ CliLoopEnds
    \/ CliRerun

SpecCli == InitCli /\ [][NextCli]_vars

----------------------------------------------------------------------------
(* Properties *)

WindowDays(w) == [k \in 1..(w[2] - w[1] + 1) |-> w[1] + k - 1]
PlannedDays == Flatten([j \in DOMAIN dates_itr |-> WindowDays(dates_itr[j])])

\* The responses of the plan, each at the position of its descriptor.
ResponsesByPlan ==
    [b \in DOMAIN batches |->
        [i \in DOMAIN batches[b] |-> Response(batches[b][i], FaultAt(server, b, i))]]

\* What the call returns when the responses are taken by their plan position.
ReturnByPlan ==
    LET a == Assembled(ResponsesByPlan)
    IN IF mode = "coords" THEN CoordsReturn(a.value, pet) ELSE GeomReturn(a.value, pet, geom)

ResultNames ==
    IF mode = "coords" THEN [i \in DOMAIN clm.columns |-> clm.columns[i].name]
    ELSE clm.data_vars
ResultDays ==
    IF mode = "coords" THEN [k \in DOMAIN clm.index |-> DayOf(clm.index[k])]
    ELSE [k \in DOMAIN clm.time |-> DayOf(clm.time[k])]
ResultValues == UNION {Range(clm.data[c]) : c \in DOMAIN clm.data}

\* C1: whatever the order in which the fetches of a call complete, the returned
\* dataset is the one assembled from the responses taken by their (variable, window)
\* position in the plan: its variables are in the order of the request plan, and
\* (when every response is whole) its times are the planned windows' days in plan
\* order.
C1_OrderFromPlanOnly ==
    pc = "done" =>
        /\ clm = ReturnByPlan.value
        /\ ResultNames = variables \o (IF PetSelected(pet) THEN <<"pet">> ELSE <<>>)
        /\ server[1] = "ok" => ResultDays = PlannedDays

C1_Witness ==
    /\ pc = "done"
    /\ reordered
    /\ Len(variables) = 2
    /\ Len(dates_itr) >= 2

\* C2: a call that returns a dataset has had every planned fetch answered and holds
\* every value the archive served for every planned (variable, window); a call in
\* which a fetch failed ends with the transport's error, a grid call whose files
\* do not merge ends with a ServiceError, and a failed call returns no dataset.
C2_NoPartialDataset ==
    /\ pc = "done" =>
         /\ error = ""
         /\ server[1] # "fail"
         /\ Len(got) = Len(batches)
         /\ \A b \in DOMAIN batches : \A i \in DOMAIN batches[b] :
               LET d == batches[b][i]
                   days == ServedDays(d, FaultAt(server, b, i))
               IN /\ got[b][i] # NoPayload
                  /\ \A k \in DOMAIN days : <<d.params.var, days[k]>> \in ResultValues
    /\ pc = "failed" => (clm = NoDataset /\ error # "")
    /\ server[1] = "fail" => (pc = "failed" /\ error = "TransportError")
    /\ (server[1] = "mismatch" /\ pc # "fetch") => (pc = "failed" /\ error = "ServiceError")

C2_Witness ==
    /\ pc = "failed"
    /\ error = "TransportError"
    /\ ndone > 0
    /\ Len(batches[cur]) > 1

NoneSelected == (entry = "lib" /\ pet = None) \/ (entry = "cli" /\ cli_pet = "none")

SeriesOf(b) == ConcatRows([i \in DOMAIN got[b] |-> read_csv(got[b][i])])
DateIndexMismatch ==
    \E b1 \in DOMAIN got : \E b2 \in DOMAIN got : SeriesOf(b1).index # SeriesOf(b2).index

\* C8: in point mode a call whose variables' series differ in their dates does not
\* return: no returned table rests on mismatched date indexes or holds a filled-in
\* cell.
C8_MismatchFails ==
    (pc = "done" /\ mode = "coords") => (~DateIndexMismatch /\ NaN \notin ResultValues)

ProjectionKeys == {"crs", "nodatavals"}

\* C9 as stated: the projection, the nodata value and the affine transform are on
\* the returned dataset and, equal, on every data variable of it.
C9_AllOnEveryVariable ==
    (pc = "done" /\ mode = "geom") =>
        \A k \in ProjectionKeys \cup {"transform"} :
            /\ k \in DOMAIN clm.attrs
            /\ \A n \in DOMAIN clm.data_vars :
                  /\ k \in DOMAIN clm.var_attrs[n]
                  /\ clm.var_attrs[n][k] = clm.attrs[k]

\* C9, amended: the returned dataset carries the canonical projection string, the
\* nodata value 0.0 and the affine transform; every data variable carries the same
\* projection string and nodata value, and the transform is on the dataset only.
C9_ProjectionAndNodataOnEveryVariable ==
    (pc = "done" /\ mode = "geom") =>
        /\ DOMAIN clm.attrs = {"crs", "nodatavals", "transform", "res"}
        /\ clm.attrs["crs"] = daymet_crs
        /\ clm.attrs["nodatavals"] = <<0>>
        /\ clm.attrs["transform"] = get_transform(clm)
        /\ \A n \in DOMAIN clm.data_vars :
              /\ \A k \in ProjectionKeys :
                    /\ k \in DOMAIN clm.var_attrs[n]
                    /\ clm.var_attrs[n][k] = clm.attrs[k]
              /\ "transform" \notin DOMAIN clm.var_attrs[n]

C9_Witness ==
    /\ pc = "done"
    /\ mode = "geom"
    /\ Len(clm.data_vars) = 3
    /\ "pet" \in Range(clm.data_vars)

Ended == pc \in {"done", "failed"} /\ batches # <<>>

StrictlyInside(g, bbox) ==
    IF g.kind = "Point"
    THEN bbox.minx < g.x /\ g.x < bbox.maxx /\ bbox.miny < g.y /\ g.y < bbox.maxy
    ELSE bbox.minx < g.minx /\ g.maxx < bbox.maxx /\ bbox.miny < g.miny /\ g.maxy < bbox.maxy

\* Some of the geometry lies outside the box.
Outside(g, bbox) ==
    IF g.kind = "Point"
    THEN g.x < bbox.minx \/ g.x > bbox.maxx \/ g.y < bbox.miny \/ g.y > bbox.maxy
    ELSE g.minx < bbox.minx \/ g.maxx > bbox.maxx \/ g.miny < bbox.miny \/ g.maxy > bbox.maxy

\* C4: a geometry strictly inside one region box and outside the other two is
\* resolved to that region; a geometry outside all three boxes is refused with an
\* out-of-domain error; and the region returned is the first of na, hi, pr, in
\* that order, whose box contains the geometry.
C4_RegionOfContainingBox ==
    pc \in {"call", "failed"} =>
        /\ \A r \in RegionSet :
              (/\ StrictlyInside(geom, region_bbox(r))
               /\ \A o \in RegionSet \ {r} : Outside(geom, region_bbox(o)))
                  => (pc = "call" /\ region = r)
        /\ (\A r \in RegionSet : Outside(geom, region_bbox(r)))
              => (pc = "failed" /\ error = "InvalidInputRange")
        /\ pc = "call" =>
              \E i \in DOMAIN Regions :
                  /\ region = Regions[i]
                  /\ contains(region_bbox(Regions[i]), geom)
                  /\ \A j \in 1..(i - 1) : ~contains(region_bbox(Regions[j]), geom)

C4_Witness ==
    /\ pc = "call"
    /\ region = "hi"
    /\ geom.kind = "Polygon"
    /\ StrictlyInside(geom, region_bbox("hi"))
    /\ \A o \in {"na", "pr"} : Outside(geom, region_bbox(o))

\* C3: a date pair (s, e) with s <= e spanning k calendar years is decomposed into
\* exactly k windows, ascending and non-overlapping, whose days are exactly those
\* of [s, e]: the first starts at s, the last ends at e, every window between them
\* is a whole calendar year.
C3_WindowsCoverExactly ==
    (pc \in {"windows", "planned"} /\ dates[1] = "pair") =>
        LET s == dates[2]
            e == dates[3]
            k == YearOf(e) - YearOf(s) + 1
        IN /\ Len(dates_itr) = k
           /\ dates_itr[1][1] = s
           /\ dates_itr[k][2] = e
           /\ \A i \in 1..k : dates_itr[i][1] <= dates_itr[i][2]
           /\ \A i \in 1..(k - 1) : dates_itr[i][2] < dates_itr[i + 1][1]
           /\ UNION {dates_itr[i][1]..dates_itr[i][2] : i \in 1..k} = s..e
           /\ \A i \in 2..(k - 1) :
                 dates_itr[i] = <<Jan1(YearOf(s) + i - 1), Dec31(YearOf(s) + i - 1)>>

C3_Witness ==
    /\ pc = "windows"
    /\ dates[1] = "pair"
    /\ Len(dates_itr) = 3
    /\ dates[2] # Jan1(YearOf(dates[2]))
    /\ dates[3] # Dec31(YearOf(dates[3]))

IsFor(d, v, w) ==
    /\ d.params.var = v
    /\ d.params.time_start = strftime(w[1])
    /\ d.params.time_end = strftime(w[2])

\* C5: the point-mode plan holds one group per variable and |V| * |W| descriptors,
\* exactly one per (variable, window), all descriptors of a variable before those
\* of the next one and, within a variable, in the order of the windows.
C5_GroupedByVariable ==
    (pc = "planned" /\ mode = "coords") =>
        LET flat == Flatten(batches)
            nv == Len(variables)
            nw == Len(dates_itr)
        IN /\ Len(batches) = nv
           /\ Len(flat) = nv * nw
           /\ \A i \in 1..nv : \A j \in 1..nw :
                 /\ IsFor(flat[(i - 1) * nw + j], variables[i], dates_itr[j])
                 /\ Cardinality({p \in DOMAIN flat :
                                    IsFor(flat[p], variables[i], dates_itr[j])}) = 1

C5_Witness ==
    /\ pc = "planned"
    /\ mode = "coords"
    /\ Len(variables) = 2
    /\ Len(dates_itr) = 3
    /\ Len(Flatten(batches)) = 6

\* C6: in both builders the file addressed is of the total form (monttl, annttl) if
\* and only if the variable is prcp and the scale monthly or annual; any other
\* variable at those scales has the average form (monavg, annavg); at the daily
\* scale every variable has the daily form.
C6_TotalOnlyForPrcp ==
    pc = "planned" =>
        \A b \in DOMAIN batches : \A i \in DOMAIN batches[b] :
            LET d == batches[b][i]
                v == d.params.var
                f == Range(d.url.file)
            IN /\ ("monttl" \in f) <=> (v = "prcp" /\ time_scale = "monthly")
               /\ ("annttl" \in f) <=> (v = "prcp" /\ time_scale = "annual")
               /\ ("monavg" \in f) <=> (v # "prcp" /\ time_scale = "monthly")
               /\ ("annavg" \in f) <=> (v # "prcp" /\ time_scale = "annual")
               /\ ("daily" \in f) <=> (time_scale = "daily")

C6_Witness ==
    /\ pc = "planned"
    /\ mode = "geom"
    /\ time_scale = "annual"
    /\ Len(variables) = 2
    /\ "prcp" \in Range(variables)

\* The first of the checks of a call that its arguments do not pass ("" when they
\* pass them all), in the order in which the call makes them.
FailedCheck ==
    IF dates[1] = "pair" /\ dates[2] > dates[3] THEN "dates"
    ELSE IF mode = "coords" /\ geom = Malformed THEN "type"
    ELSE IF mode = "coords" /\ ~contains(region_bbox(region), geom) THEN "range"
    ELSE IF mode = "geom" /\ ~intersects(geom, region_bbox(region)) THEN "range"
    ELSE ""

NothingRequested ==
    /\ batches = <<>>
    /\ dispatched = <<>>
    /\ status = <<>>
    /\ got = <<>>

\* C11: a call whose dates do not pass the date check, whose coords is not a
\* (lon, lat) tuple, whose point is not within the box of the selected region, or
\* whose geometry does not intersect it, ends with that error (invalid type for
\* the tuple, invalid range for the region) in its first step: in no state of such
\* a call has a descriptor been built or a fetch been dispatched.
C11_ValidationPrecedesDispatch ==
    (region # "" /\ FailedCheck # "") =>
        /\ pc \in {"call", "failed"}
        /\ NothingRequested
        /\ clm = NoDataset
        /\ pc = "failed" =>
              /\ error # ""
              /\ FailedCheck = "type" => error = "InvalidInputType"
              /\ FailedCheck = "range" => error = "InvalidInputRange"

C11_Witness ==
    /\ pc = "failed"
    /\ mode = "coords"
    /\ region = "hi"
    /\ geom = Point(-1000000, 400000)
    /\ error = "InvalidInputRange"
    /\ dates_itr # <<>>
    /\ NothingRequested

\* C12: every descriptor built by _coord_urls and _gridded_urls, for the windows of
\* a date pair or of a year list, names the yearly file of the year of its
\* time_start, and its time_end lies in that year too.
C12_RequestWithinFileYear ==
    pc = "planned" =>
        /\ Len(Flatten(batches)) = Len(variables) * Len(dates_itr)
        /\ \A b \in DOMAIN batches : \A i \in DOMAIN batches[b] :
              LET d == batches[b][i]
              IN /\ d.url.year = d.params.time_start.year
                 /\ d.url.year = d.params.time_end.year
                 /\ \E w \in Range(dates_itr) :
                       /\ d.url.year = YearOf(w[1])
                       /\ ParseTime(d.params.time_start) = w[1]
                       /\ ParseTime(d.params.time_end) = w[2]

C12_Witness ==
    /\ pc = "planned"
    /\ mode = "geom"
    /\ dates[1] = "pair"
    /\ YearOf(dates[3]) - YearOf(dates[2]) = 2
    /\ dates[2] # Jan1(YearOf(dates[2]))
    /\ Len(variables) = 2

\* C13: the pr box lies inside the na box and na is tested first, so _get_region
\* returns na for every geometry the pr box contains and never returns pr; it
\* returns hi exactly for the geometries the hi box contains.
C13_PrNeverReturned ==
    /\ contains(region_bbox("na"), region_bbox("pr"))
    /\ region # "pr"
    /\ pc \in {"call", "failed"} =>
          /\ contains(region_bbox("pr"), geom) => (pc = "call" /\ region = "na")
          /\ (pc = "call" /\ region = "hi") <=> contains(region_bbox("hi"), geom)

C13_Witness ==
    /\ pc = "call"
    /\ region = "na"
    /\ geom.kind = "Point"
    /\ contains(region_bbox("pr"), geom)

RetrievalsOf(f, r) == {k \in DOMAIN retrieved : retrieved[k].file = f /\ retrieved[k].run = r}

\* C14: in the loops of coords and geometry a row whose file exists when the row
\* is reached causes no retrieval and leaves the file as it is: no retrieval is
\* ever made for a file that exists, a file that was there before the first run
\* is never changed, a file the command wrote is the one of the last retrieval
\* made for it; in one run at most one retrieval is made for an id, at the first
\* row that has it; and a run that follows a run that passed every row makes no
\* retrieval.
C14_ExistingFileSkipped ==
    run > 0 =>
        /\ \A k \in DOMAIN retrieved : ~retrieved[k].existed
        /\ \A f \in DOMAIN files :
              /\ files0[f] # NoFile =>
                    (files[f] = files0[f] /\ \A r \in 1..run : RetrievalsOf(f, r) = {})
              /\ (files0[f] = NoFile /\ files[f] # NoFile) =>
                    \E k \in DOMAIN retrieved :
                        /\ retrieved[k].file = f
                        /\ files[f].mtime = <<retrieved[k].run, retrieved[k].row>>
                        /\ \A j \in DOMAIN retrieved : retrieved[j].file = f => j <= k
              /\ \A r \in 1..run :
                    /\ Cardinality(RetrievalsOf(f, r)) <= 1
                    /\ \A k \in RetrievalsOf(f, r) :
                          /\ fname(rows[retrieved[k].row]) = f
                          /\ \A j \in 1..(retrieved[k].row - 1) : fname(rows[j]) # f
        /\ \A k \in DOMAIN retrieved :
              retrieved[k].run > 1 => outcomes[retrieved[k].run - 1] # "ran"

C14_Witness ==
    /\ run = 2
    /\ pc = "ran"
    /\ outcomes = <<"ran">>
    /\ Len(rows) = 3
    /\ rows[1] = rows[3]
    /\ rows[2] # rows[1]
    /\ files0[fname(rows[2])] # NoFile
    /\ Len(retrieved) = 1
    /\ files[fname(rows[1])] # NoFile

====
